---------------------------- MODULE Spec2Model ----------------------------
(***************************************************************************)
(* A model of the tracer core: the flat-surface geometry managers of       *)
(* tracer/flat_surface.py (FlatGeometryManager, FiniteFlatGM, RectPlateGM, *)
(* RoundPlateGM) and the ray bundle of tracer/ray_bundle.py.               *)
(*                                                                         *)
(* Numbers.  A float is modelled by an exact rational or one of the three  *)
(* IEEE special values: <<n, d>> with d > 0 in lowest terms is n/d,        *)
(* <<1, 0>> is +inf, <<-1, 0>> is -inf and <<0, 0>> is NaN.  Rounding and  *)
(* the sign of zero are not modelled.                                      *)
(*                                                                         *)
(* Units.  The components of a ray direction are counted in units of       *)
(* 0.5e-10, so that the tolerance 1e-10 of find_intersections is EPS = 2   *)
(* units and d . normal can fall below, on and above it with small         *)
(* integers.  A parametric distance is then counted in units of 2e10, and  *)
(* distance * direction is a plain length again: the code never           *)
(* normalises a direction, so the arithmetic is the code's own.            *)
(*                                                                         *)
(* Indices are 0-based as in the source; the sequences that hold arrays    *)
(* are 1-based, so element i of an array a is a[i + 1].                    *)
(***************************************************************************)
EXTENDS Integers, Sequences, FiniteSets, TLC

VARIABLES
    self,      \* the geometry manager instance: its class, shape and __dict__
    frame,     \* the 4x4 frame the engine passes to find_intersections
    bundle,    \* the RayBundle the engine passes to find_intersections
    ret,       \* outcome of the last call: exception raised and value returned
    last,      \* name of the last method called on the manager
    phase,     \* protocol state (spec 4.2) the calls so far left the manager in
    dists,     \* the distances the engine got from find_intersections this cycle
    sel,       \* the index array the engine gave to select_rays this cycle
    mem,       \* array storage: mem[b] holds the columns of buffer b
    bundles,   \* the RayBundle objects: attribute -> the buffer it refers to
    op,        \* the last RayBundle operation, its arguments and its outcome
    nops       \* number of RayBundle operations so far

gvars == <<self, frame, bundle, ret, last, phase, dists, sel>>
bvars == <<mem, bundles, op, nops>>
vars == <<self, frame, bundle, ret, last, phase, dists, sel, mem, bundles, op, nops>>

---------------------------------------------------------------------------
(* Bounds of the model. *)

\* largest number of rays in the bundle handed to find_intersections
MaxRays == 2
\* largest length of an index array (select_rays, RayBundle selectors)
MaxSel == 2
\* largest number of rays in a RayBundle the run starts from
MaxN == 2
\* largest number of RayBundle operations in a run
MaxOps == 2

---------------------------------------------------------------------------
(* Optional values: an attribute that is not set (hasattr is False) is     *)
(* None, one that is set to x is Some(x).                                  *)

None == <<>>
Some(x) == <<x>>
Has(a) == a /= <<>>
Val(a) == a[1]

---------------------------------------------------------------------------
(* Float arithmetic on <<n, d>>. *)

Abs(i) == IF i < 0 THEN -i ELSE i
Sgn(i) == IF i < 0 THEN -1 ELSE IF i > 0 THEN 1 ELSE 0

RECURSIVE GCD(_, _)
GCD(a, b) == IF b = 0 THEN a ELSE GCD(b, a % b)

Inf == <<1, 0>>
NegInf == <<-1, 0>>
NaN == <<0, 0>>
Zero == <<0, 1>>
One == <<1, 1>>

IsNaN(a) == a = NaN
IsInf(a) == a[2] = 0 /\ a[1] /= 0
IsFinite(a) == a[2] /= 0

\* the rational n/d (d /= 0) in lowest terms with a positive denominator
Rat(n, d) ==
    LET g == GCD(Abs(n), Abs(d))
    IN  <<(Sgn(d) * n) \div g, Abs(d) \div g>>
FromInt(i) == <<i, 1>>

FNeg(a) == <<-a[1], a[2]>>
FAbs(a) == <<Abs(a[1]), a[2]>>
FMul(a, b) ==
    IF IsNaN(a) \/ IsNaN(b) THEN NaN
    ELSE IF IsInf(a) \/ IsInf(b)
         THEN IF a[1] = 0 \/ b[1] = 0 THEN NaN
              ELSE <<Sgn(a[1]) * Sgn(b[1]), 0>>
         ELSE Rat(a[1] * b[1], a[2] * b[2])
FAdd(a, b) ==
    IF IsNaN(a) \/ IsNaN(b) THEN NaN
    ELSE IF IsInf(a) /\ IsInf(b) THEN (IF a = b THEN a ELSE NaN)
    ELSE IF IsInf(a) THEN a
    ELSE IF IsInf(b) THEN b
    ELSE Rat(a[1] * b[2] + b[1] * a[2], a[2] * b[2])
\* a > b; False when either is NaN
FGt(a, b) ==
    IF IsNaN(a) \/ IsNaN(b) THEN FALSE
    ELSE IF IsInf(a) \/ IsInf(b)
         THEN (IF IsInf(a) THEN a[1] ELSE 0) > (IF IsInf(b) THEN b[1] ELSE 0)
         ELSE a[1] * b[2] > b[1] * a[2]
FLt(a, b) == FGt(b, a)

\* dot product of two integer 3-vectors
Dot(a, b) == a[1] * b[1] + a[2] * b[2] + a[3] * b[3]

---------------------------------------------------------------------------
(* Arrays.  A 1D array is the sequence of its elements, a 2D array of      *)
(* shape (r, n) the sequence of its n columns.                             *)

Range(s) == {s[i] : i \in DOMAIN s}
\* a[idxs] (or a[:, idxs]) for an integer index array idxs
InRange(idxs, n) == \A k \in DOMAIN idxs : idxs[k] < n
Take(a, idxs) == [k \in DOMAIN idxs |-> a[idxs[k] + 1]]
\* N.nonzero(a)[0]: the 0-based positions of the elements of a that are True
\* (a boolean array, form "mask") or not 0 (an integer array, form "index")
Truthy(form, x) == IF form = "mask" THEN x ELSE x /= 0
RECURSIVE nonzero_from(_, _, _)
nonzero_from(form, a, k) ==
    IF k > Len(a) THEN <<>>
    ELSE (IF Truthy(form, a[k]) THEN <<k - 1>> ELSE <<>>)
             \o nonzero_from(form, a, k + 1)
nonzero(form, a) == nonzero_from(form, a, 1)

---------------------------------------------------------------------------
(* Frames: 4x4 homogeneous matrices, a sequence of four rows. *)

\* frame[:3, j]
Col3(M, j) == <<M[1][j + 1], M[2][j + 1], M[3][j + 1]>>

Nx(i) == (i % 3) + 1
\* cofactor (i, j) of the 3x3 block of M
Cof(M, i, j) ==
    M[Nx(i)][Nx(j)] * M[Nx(Nx(i))][Nx(Nx(j))]
        - M[Nx(i)][Nx(Nx(j))] * M[Nx(Nx(i))][Nx(j)]
Det3(M) == M[1][1] * Cof(M, 1, 1) + M[1][2] * Cof(M, 1, 2) + M[1][3] * Cof(M, 1, 3)

\* N.linalg.inv of a homogeneous matrix [[R, t], [0, 0, 0, 1]] with R
\* invertible: [[R^-1, -R^-1 t], [0, 0, 0, 1]], R^-1 being adj(R) / det(R)
inv(M) ==
    LET det == Det3(M)
        Ri == [i \in 1..3 |-> [j \in 1..3 |-> Rat(Cof(M, j, i), det)]]
        ti == [i \in 1..3 |->
                 FNeg(FAdd(FAdd(FMul(Ri[i][1], FromInt(M[1][4])),
                                FMul(Ri[i][2], FromInt(M[2][4]))),
                           FMul(Ri[i][3], FromInt(M[3][4]))))]
    IN  [i \in 1..4 |->
           IF i = 4 THEN <<Zero, Zero, Zero, One>>
           ELSE <<Ri[i][1], Ri[i][2], Ri[i][3], ti[i]>>]

\* N.dot(A, X) for a 4x4 float matrix A and the 4-row array X (columns of
\* four floats): every product is formed and added, so 0 * inf is NaN
MatVec(A, x) ==
    [i \in 1..4 |->
       FAdd(FAdd(FAdd(FMul(A[i][1], x[1]), FMul(A[i][2], x[2])),
                 FMul(A[i][3], x[3])),
            FMul(A[i][4], x[4]))]
dot4(A, X) == [c \in DOMAIN X |-> MatVec(A, X[c])]

---------------------------------------------------------------------------
(* The geometry managers.  A method is an operator from the instance (and  *)
(* the arguments) to an outcome [self, exc, val]: the instance as the call *)
(* leaves it, the exception it raised ("" for a normal return) and the     *)
(* value it returned.  A method that raises keeps the assignments made     *)
(* before the failing statement.                                           *)

Returns(s, v) == [self |-> s, exc |-> "", val |-> v]
Raises(s, e) == [self |-> s, exc |-> e, val |-> <<>>]

\* tolerance of the parallel test, in units of 0.5e-10
EPS == 2

\* RayBundle.get_num_rays of the working bundle
get_num_rays(rb) == Len(rb.vertices)

\* GeometryManager.find_intersections: the base class registers the frame
\* and the bundle
GeometryManager_find_intersections(s, fr, ray_bundle) ==
    [s EXCEPT !.working_frame = Some(fr), !.working_bundle = Some(ray_bundle)]

\* GeometryManager.done: the base class discards what it registered
GeometryManager_done(s) ==
    [s EXCEPT !.working_frame = None, !.working_bundle = None]

\* a parallel test that lets a ray on the tolerance through: abs(dt) >= 1e-10
Unparallel_inclusive(dt) == Abs(dt) >= EPS

\* abs(dt) > 1e-10
Unparallel(dt) == Abs(dt) > EPS

\* params < 0
Negative(p) == FLt(p, Zero)

\* FlatGeometryManager.find_intersections
Flat_find_intersections(s, fr, ray_bundle) ==
    LET s1 == GeometryManager_find_intersections(s, fr, ray_bundle)
        d == ray_bundle.directions
        v == [i \in DOMAIN ray_bundle.vertices |->
                [c \in 1..3 |-> ray_bundle.vertices[i][c] - Col3(fr, 3)[c]]]
        n == get_num_rays(ray_bundle)
        dt == [i \in DOMAIN d |-> Dot(d[i], Col3(fr, 2))]
        unparallel == [i \in DOMAIN dt |-> Unparallel(dt[i])]
        vt == [i \in DOMAIN v |-> Dot(Col3(fr, 2), v[i])]
        filled == [i \in 1..n |->
                     IF unparallel[i] THEN FNeg(Rat(vt[i], dt[i])) ELSE Inf]
        params == [i \in 1..n |-> IF Negative(filled[i]) THEN Inf ELSE filled[i]]
        backside == [i \in DOMAIN dt |-> dt[i] > 0]
    IN  Returns([s1 EXCEPT !.params = Some(params),
                           !.backside = Some([form |-> "mask", a |-> backside])],
                params)

\* v + p[None,:]*d for integer columns v, d and float distances p
HitPoints(v, p, d) ==
    [i \in DOMAIN v |->
       [c \in 1..3 |-> FAdd(FromInt(v[i][c]), FMul(p[i], FromInt(d[i][c])))]]

\* a select_rays that forgets to index the flags: N.nonzero(self._backside)[0]
NarrowBackside_unindexed(s, idxs) ==
    IF ~Has(s.backside) THEN Raises(s, "AttributeError")
    ELSE Returns([s EXCEPT !.backside =
                     Some([form |-> "index",
                           a |-> nonzero(Val(s.backside).form, Val(s.backside).a)])],
                 <<>>)

\* self._backside = N.nonzero(self._backside[idxs])[0], the statement shared
\* by both select_rays; s already holds _idxs
NarrowBackside(s, idxs) ==
    IF ~Has(s.backside) THEN Raises(s, "AttributeError")
    ELSE IF ~InRange(idxs, Len(Val(s.backside).a)) THEN Raises(s, "IndexError")
    ELSE Returns([s EXCEPT !.backside =
                     Some([form |-> "index",
                           a |-> nonzero(Val(s.backside).form,
                                         Take(Val(s.backside).a, idxs))])],
                 <<>>)

\* FlatGeometryManager.select_rays
Flat_select_rays(s, idxs) ==
    LET r1 == NarrowBackside([s EXCEPT !.idxs = Some(idxs)], idxs)
        s2 == r1.self
    IN  IF r1.exc /= "" THEN r1
        ELSE IF ~Has(s2.working_bundle) THEN Raises(s2, "AttributeError")
        ELSE IF ~InRange(idxs, Len(Val(s2.working_bundle).vertices))
                \/ ~InRange(idxs, Len(Val(s2.working_bundle).directions))
             THEN Raises(s2, "IndexError")
        ELSE IF ~Has(s2.params) THEN Raises(s2, "AttributeError")
        ELSE IF ~InRange(idxs, Len(Val(s2.params))) THEN Raises(s2, "IndexError")
        ELSE LET v == Take(Val(s2.working_bundle).vertices, idxs)
                 d == Take(Val(s2.working_bundle).directions, idxs)
                 p == Take(Val(s2.params), idxs)
             IN  Returns([s2 EXCEPT !.params = None,
                                    !.global = Some(HitPoints(v, p, d))],
                         <<>>)

\* FlatGeometryManager.get_normals.  lenient tells whether the build's numpy
\* accepts a boolean index whose length differs from the indexed axis (old
\* releases index by its True positions, later ones raise IndexError)
get_normals(s, lenient) ==
    IF ~Has(s.working_frame) \/ ~Has(s.idxs) THEN Raises(s, "AttributeError")
    ELSE LET k == Len(Val(s.idxs))
             z == Col3(Val(s.working_frame), 2)
             norms == [j \in 1..k |-> z]
         IN  IF ~Has(s.backside) THEN Raises(s, "AttributeError")
             ELSE LET b == Val(s.backside)
                      at == IF b.form = "mask" THEN nonzero("mask", b.a) ELSE b.a
                      flip == {at[j] + 1 : j \in DOMAIN at}
                  IN  IF b.form = "mask" /\ Len(b.a) /= k /\ ~lenient
                         THEN Raises(s, "IndexError")
                      ELSE IF ~InRange(at, k) THEN Raises(s, "IndexError")
                      ELSE Returns(s, [j \in 1..k |->
                                         IF j \in flip
                                         THEN [c \in 1..3 |-> -norms[j][c]]
                                         ELSE norms[j]])

\* FlatGeometryManager.get_intersection_points_global
get_intersection_points_global(s) ==
    IF ~Has(s.global) THEN Raises(s, "AttributeError")
    ELSE Returns(s, Val(s.global))

\* FlatGeometryManager.done
done(s) ==
    LET s1 == GeometryManager_done(s)
        s2 == IF Has(s1.global) THEN [s1 EXCEPT !.global = None] ELSE s1
        s3 == IF Has(s2.idxs) THEN [s2 EXCEPT !.idxs = None] ELSE s2
    IN  Returns(s3, <<>>)

\* FiniteFlatGM.find_intersections
Finite_find_intersections(s, fr, ray_bundle) ==
    LET r == Flat_find_intersections(s, fr, ray_bundle)
        ray_prms == r.val
        v == Val(r.self.working_bundle).vertices
        d == Val(r.self.working_bundle).directions
        p == Val(r.self.params)
        glob == HitPoints(v, p, d)
        loc == dot4(inv(Val(r.self.working_frame)),
                    [i \in DOMAIN glob |-> glob[i] \o <<One>>])
    IN  Returns([r.self EXCEPT !.params = None,
                               !.global = Some(glob),
                               !.local = Some(loc)],
                ray_prms)

\* a FiniteFlatGM.select_rays that keeps the points of the whole bundle
Finite_select_rays_unsliced(s, idxs) ==
    LET r1 == NarrowBackside([s EXCEPT !.idxs = Some(idxs)], idxs)
    IN  IF r1.exc /= "" THEN r1
        ELSE IF ~Has(r1.self.global) THEN Raises(r1.self, "AttributeError")
        ELSE Returns(r1.self, <<>>)

\* FiniteFlatGM.select_rays
Finite_select_rays(s, idxs) ==
    LET r1 == NarrowBackside([s EXCEPT !.idxs = Some(idxs)], idxs)
        s2 == r1.self
    IN  IF r1.exc /= "" THEN r1
        ELSE IF ~Has(s2.global) THEN Raises(s2, "AttributeError")
        ELSE IF ~InRange(idxs, Len(Val(s2.global))) THEN Raises(s2, "IndexError")
        ELSE Returns([s2 EXCEPT !.global = Some(Take(Val(s2.global), idxs))], <<>>)

\* a rectangle without its boundary: abs(self._local[:2]) >= self._half_dims
OutsideRect_closed(loc, half_dims) ==
    \E c \in 1..2 : ~FLt(FAbs(loc[c]), half_dims[c])

\* N.any(abs(self._local[:2]) > self._half_dims, axis=0), for one column
OutsideRect(loc, half_dims) ==
    \E c \in 1..2 : FGt(FAbs(loc[c]), half_dims[c])

\* RectPlateGM.find_intersections
Rect_find_intersections(s, fr, ray_bundle) ==
    LET r == Finite_find_intersections(s, fr, ray_bundle)
        loc == Val(r.self.local)
        ray_prms == [i \in DOMAIN r.val |->
                       IF OutsideRect(loc[i], Val(s.half_dims)) THEN Inf
                       ELSE r.val[i]]
    IN  Returns([r.self EXCEPT !.local = None], ray_prms)

\* N.sum(self._local[:2]**2, axis=0) > self._R**2, for one column
OutsideRound(loc, R) ==
    FGt(FAdd(FMul(loc[1], loc[1]), FMul(loc[2], loc[2])), FMul(R, R))

\* RoundPlateGM.find_intersections
Round_find_intersections(s, fr, ray_bundle) ==
    LET r == Finite_find_intersections(s, fr, ray_bundle)
        loc == Val(r.self.local)
        ray_prms == [i \in DOMAIN r.val |->
                       IF OutsideRound(loc[i], Val(s.R)) THEN Inf ELSE r.val[i]]
    IN  Returns([r.self EXCEPT !.local = None], ray_prms)

\* method resolution by class
find_intersections(s, fr, ray_bundle) ==
    CASE s.cls = "FlatGeometryManager" -> Flat_find_intersections(s, fr, ray_bundle)
      [] s.cls = "FiniteFlatGM" -> Finite_find_intersections(s, fr, ray_bundle)
      [] s.cls = "RectPlateGM" -> Rect_find_intersections(s, fr, ray_bundle)
      [] s.cls = "RoundPlateGM" -> Round_find_intersections(s, fr, ray_bundle)

select_rays(s, idxs) ==
    IF s.cls = "FlatGeometryManager" THEN Flat_select_rays(s, idxs)
    ELSE Finite_select_rays(s, idxs)

---------------------------------------------------------------------------
(* Construction. *)

\* the __dict__ of a manager on which no cycle was started
NewManager(cls, half_dims, R) ==
    [cls |-> cls, half_dims |-> half_dims, R |-> R,
     working_frame |-> None, working_bundle |-> None, params |-> None,
     backside |-> None, idxs |-> None, global |-> None, local |-> None]

\* RectPlateGM.__init__ (width, height > 0)
RectPlateGM(width, height) ==
    NewManager("RectPlateGM", Some(<<Rat(width, 2), Rat(height, 2)>>), None)

\* RoundPlateGM.__init__ (R > 0)
RoundPlateGM(R) == NewManager("RoundPlateGM", None, Some(FromInt(R)))

Managers ==
    { NewManager("FlatGeometryManager", None, None),
      NewManager("FiniteFlatGM", None, None),
      RectPlateGM(2, 4),
      RoundPlateGM(1) }

\* the frames handed to find_intersections: the identity, a quarter turn
\* about X moved to y = 2, and a half turn about Y moved to x = 1
Frames ==
    { << <<1, 0, 0, 0>>, <<0, 1, 0, 0>>, <<0, 0, 1, 0>>, <<0, 0, 0, 1>> >>,
      << <<1, 0, 0, 0>>, <<0, 0, -1, 2>>, <<0, 1, 0, 0>>, <<0, 0, 0, 1>> >>,
      << <<-1, 0, 0, 1>>, <<0, 1, 0, 0>>, <<0, 0, -1, 0>>, <<0, 0, 0, 1>> >> }

\* the rays bundles are made of, <<vertex, direction>>.  Against the
\* identity frame: a plane behind the ray, a front hit at the origin, a back
\* hit, d . normal on the tolerance, a vertex on the plane (outside the
\* plates), a hit at (1, 1) after a distance of 1/4 unit, d . normal below
\* the tolerance, and a ray parallel to the plane that hits the second frame
RayList ==
    << << <<0, 0, 3>>, <<0, 0, 3>> >>,
       << <<0, 0, 3>>, <<0, 0, -3>> >>,
       << <<0, 0, -3>>, <<0, 0, 3>> >>,
       << <<1, 0, 3>>, <<0, 0, -2>> >>,
       << <<2, 0, 0>>, <<3, 0, -3>> >>,
       << <<1, 1, 1>>, <<0, 0, -4>> >>,
       << <<0, 0, 3>>, <<3, 0, -1>> >>,
       << <<0, 0, 0>>, <<0, 3, 0>> >> >>

\* bundles of one to MaxRays rays: the runs of consecutive rays of the list
Picks ==
    UNION {{[j \in 1..m |-> f + j - 1] : f \in 1..(Len(RayList) - m + 1)} :
             m \in 1..MaxRays}
Bundles ==
    {[vertices |-> [i \in DOMAIN q |-> RayList[q[i]][1]],
      directions |-> [i \in DOMAIN q |-> RayList[q[i]][2]]] : q \in Picks}

\* index arrays handed to select_rays
IdxArrays == UNION {[1..m -> 0..(MaxRays - 1)] : m \in 0..MaxSel}

---------------------------------------------------------------------------
(* The engine: one manager, one frame and one bundle.  It may start a     *)
(* cycle, ask for the hit geometry and call done at any time; it calls     *)
(* select_rays only on the intersections just found, with indices into the *)
(* working bundle (the caller's contract of spec 5 and of the docstring of *)
(* select_rays).                                                           *)

Init ==
    /\ self \in Managers
    /\ frame \in Frames
    /\ bundle \in Bundles
    /\ ret = [exc |-> "", val |-> <<>>]
    /\ last = "__init__"
    /\ phase = "idle"
    /\ dists = None
    /\ sel = None
    /\ mem = <<>>
    /\ bundles = <<>>
    /\ op = [name |-> "none"]
    /\ nops = 0

Call(r, name, ph) ==
    /\ self' = r.self
    /\ ret' = [exc |-> r.exc, val |-> r.val]
    /\ last' = name
    /\ phase' = ph
    /\ UNCHANGED <<frame, bundle>>
    /\ UNCHANGED bvars

FindIntersections ==
    LET r == find_intersections(self, frame, bundle)
    IN  /\ Call(r, "find_intersections", "intersecting")
        /\ dists' = Some(r.val)
        /\ sel' = None

SelectRays ==
    /\ phase = "intersecting"
    /\ \E idxs \in IdxArrays :
          /\ InRange(idxs, get_num_rays(bundle))
          /\ Call(select_rays(self, idxs), "select_rays", "selected")
          /\ sel' = Some(idxs)
    /\ UNCHANGED dists

GetNormals ==
    /\ \E lenient \in BOOLEAN :
          Call(get_normals(self, lenient), "get_normals", phase)
    /\ UNCHANGED <<dists, sel>>

GetIntersectionPointsGlobal ==
    /\ Call(get_intersection_points_global(self),
            "get_intersection_points_global", phase)
    /\ UNCHANGED <<dists, sel>>

Done ==
    /\ Call(done(self), "done", "idle")
    /\ dists' = None
    /\ sel' = None

Next ==
    \/ FindIntersections
    \/ SelectRays
    \/ GetNormals
    \/ GetIntersectionPointsGlobal
    \/ Done

Spec == Init /\ [][Next]_vars

---------------------------------------------------------------------------
(* Properties of the geometry managers. *)

Finite == {"FiniteFlatGM", "RectPlateGM", "RoundPlateGM"}
Getters == {"get_normals", "get_intersection_points_global"}
PlaneNormal == Col3(frame, 2)
PlanePoint == Col3(frame, 3)
NumRays == Len(bundle.vertices)
Vertex(i) == bundle.vertices[i]
Direction(i) == bundle.directions[i]
\* normal . (v_i - plane_point)
Height(i) == Dot(PlaneNormal, [c \in 1..3 |-> Vertex(i)[c] - PlanePoint[c]])
\* d_i . normal
Slope(i) == Dot(Direction(i), PlaneNormal)
\* the distance of the claim: +inf for a parallel ray and for a plane behind
\* the ray, -(normal . (v - plane_point)) / (d . normal) otherwise
PlaneDistance(i) ==
    IF Abs(Slope(i)) <= EPS THEN Inf
    ELSE LET t == Rat(-Height(i), Slope(i))
         IN  IF t[1] < 0 THEN Inf ELSE t
\* vertex + t * direction of ray i, for a finite t
PointAt(i, t) ==
    [c \in 1..3 |-> Rat(Vertex(i)[c] * t[2] + t[1] * Direction(i)[c], t[2])]

\* C1: the distances FlatGeometryManager.find_intersections returns: +inf
\* for a ray with |d . normal| <= 1e-10, else t = -(normal . (v - p)) /
\* (d . normal), replaced by +inf when t < 0; so every distance is +inf or
\* finite and >= 0, and a ray that starts on the plane and is not parallel
\* to it gets 0.
C1_FlatDistances ==
    (last = "find_intersections" /\ self.cls \in {"FlatGeometryManager", "FiniteFlatGM"})
        => /\ ret.exc = ""
           /\ Len(ret.val) = NumRays
           /\ \A i \in 1..NumRays :
                 /\ ret.val[i] = PlaneDistance(i)
                 /\ ret.val[i] = Inf \/ (IsFinite(ret.val[i]) /\ ret.val[i][1] >= 0)
                 /\ (Height(i) = 0 /\ Abs(Slope(i)) > EPS) => ret.val[i] = Zero

C1_Witness ==
    /\ last = "find_intersections"
    /\ self.cls = "FlatGeometryManager"
    /\ \E i, j \in 1..NumRays :
          /\ Height(i) = 0 /\ ret.val[i] = Zero
          /\ Abs(Slope(j)) = EPS /\ ret.val[j] = Inf

AllReleased ==
    /\ self.working_frame = None
    /\ self.working_bundle = None
    /\ self.params = None
    /\ self.backside = None
    /\ self.idxs = None
    /\ self.global = None
    /\ self.local = None

\* C2: after done(), called at any point of a cycle, on a manager that
\* never started one, or twice, the call has not failed, the manager is
\* idle and none of _working_frame, _working_bundle, _params, _backside,
\* _idxs, _global and _local is kept.
C2_DoneReleasesAll ==
    last = "done" => (ret.exc = "" /\ phase = "idle" /\ AllReleased)

\* C3: a geometry getter called when the manager is not in the selected
\* state (fresh, between find_intersections and select_rays, after done)
\* fails and returns no array.
C3_GettersFailOutOfOrder ==
    (last \in Getters /\ phase /= "selected") => ret.exc /= ""

\* C4: after find_intersections and select_rays(idxs), get_normals returns
\* len(idxs) columns, column k being the negated frame Z axis when ray
\* idxs[k] has d . normal > 0 and the frame Z axis otherwise.
C4_NormalsFollowSelection ==
    (last = "get_normals" /\ phase = "selected")
        => /\ ret.exc = ""
           /\ Len(ret.val) = Len(Val(sel))
           /\ \A k \in DOMAIN Val(sel) :
                 ret.val[k] = IF Slope(Val(sel)[k] + 1) > 0
                              THEN [c \in 1..3 |-> -PlaneNormal[c]]
                              ELSE PlaneNormal

\* a selection that is not in bundle order, of one front and one back ray
C4_Witness ==
    /\ last = "get_normals"
    /\ phase = "selected"
    /\ Len(Val(sel)) = 2
    /\ Val(sel)[1] > Val(sel)[2]
    /\ Slope(Val(sel)[1] + 1) > 0
    /\ Slope(Val(sel)[2] + 1) < 0
    /\ \A k \in 1..2 : IsFinite(Val(dists)[Val(sel)[k] + 1])
    /\ ret.val[1] /= ret.val[2]

\* what FlatGeometryManager reports for the same frame, bundle and idxs
FlatPoints(idxs) ==
    LET m0 == NewManager("FlatGeometryManager", None, None)
        m1 == Flat_find_intersections(m0, frame, bundle).self
        m2 == Flat_select_rays(m1, idxs).self
    IN  get_intersection_points_global(m2).val

\* C5: after find_intersections and select_rays(idxs) with every selected
\* ray at a finite returned distance, get_intersection_points_global
\* returns len(idxs) columns, column k being vertex + t * direction of ray
\* idxs[k]; the finite managers return the points FlatGeometryManager
\* returns for the same frame, bundle and idxs.
C5_PointsOfSelection ==
    (/\ last = "get_intersection_points_global"
     /\ phase = "selected"
     /\ \A k \in DOMAIN Val(sel) : IsFinite(Val(dists)[Val(sel)[k] + 1]))
        => /\ ret.exc = ""
           /\ Len(ret.val) = Len(Val(sel))
           /\ \A k \in DOMAIN Val(sel) :
                 ret.val[k] = PointAt(Val(sel)[k] + 1, Val(dists)[Val(sel)[k] + 1])
           /\ self.cls \in Finite => ret.val = FlatPoints(Val(sel))

\* a finite manager, two rays that hit different points, selected in
\* reverse order
C5_Witness ==
    /\ last = "get_intersection_points_global"
    /\ phase = "selected"
    /\ self.cls \in Finite
    /\ Len(Val(sel)) = 2
    /\ Val(sel)[1] > Val(sel)[2]
    /\ \A k \in 1..2 : IsFinite(Val(dists)[Val(sel)[k] + 1])
    /\ ret.val[1] /= ret.val[2]

\* local coordinate c (0 for x, 1 for y) of the point where ray i meets the
\* plane: the frames are rigid, so it is the component of hit - origin
\* along the frame's basis vector c
LocalCoord(i, c) ==
    LET hit == PointAt(i, PlaneDistance(i))
        b == Col3(frame, c)
    IN  FAdd(FAdd(FMul(FromInt(b[1]), FAdd(hit[1], FromInt(-PlanePoint[1]))),
                  FMul(FromInt(b[2]), FAdd(hit[2], FromInt(-PlanePoint[2])))),
             FMul(FromInt(b[3]), FAdd(hit[3], FromInt(-PlanePoint[3]))))
FLe(a, b) == ~FGt(a, b)
InsideAperture(i) ==
    LET x == LocalCoord(i, 0)
        y == LocalCoord(i, 1)
    IN  IF self.cls = "RectPlateGM"
        THEN /\ FLe(FAbs(x), Val(self.half_dims)[1])
             /\ FLe(FAbs(y), Val(self.half_dims)[2])
        ELSE FLe(FAdd(FMul(x, x), FMul(y, y)), FMul(Val(self.R), Val(self.R)))

\* C6: RectPlateGM and RoundPlateGM return the distance of the infinite
\* plane for a ray that hits the plane inside the aperture, its boundary
\* included, and +inf for every other ray; a ray that misses the plane
\* stays at +inf.
C6_TrimToAperture ==
    (last = "find_intersections" /\ self.cls \in {"RectPlateGM", "RoundPlateGM"})
        => /\ ret.exc = ""
           /\ Len(ret.val) = NumRays
           /\ \A i \in 1..NumRays :
                 ret.val[i] = IF IsFinite(PlaneDistance(i)) /\ InsideAperture(i)
                              THEN PlaneDistance(i)
                              ELSE Inf

\* a plate that keeps a ray hitting its boundary and drops a ray that hits
\* the plane outside it
C6_Witness ==
    /\ last = "find_intersections"
    /\ self.cls \in {"RectPlateGM", "RoundPlateGM"}
    /\ \E i, j \in 1..NumRays :
          /\ IsFinite(ret.val[i])
          /\ IF self.cls = "RectPlateGM"
             THEN FAbs(LocalCoord(i, 0)) = Val(self.half_dims)[1]
             ELSE FAdd(FMul(LocalCoord(i, 0), LocalCoord(i, 0)),
                       FMul(LocalCoord(i, 1), LocalCoord(i, 1)))
                    = FMul(Val(self.R), Val(self.R))
          /\ IsFinite(PlaneDistance(j))
          /\ ret.val[j] = Inf

---------------------------------------------------------------------------
(* The ray bundle.  An attribute array is a buffer of mem, the sequence of *)
(* its columns (a column of vertices or directions is one value here: the  *)
(* operations move whole columns).  A RayBundle maps each of the five      *)
(* attributes to None (not set) or Some(b), b the buffer it refers to: two *)
(* attributes with the same b are the same storage.                        *)

Attrs == <<"vertices", "directions", "energy", "parents", "ref_index">>
AttrSet == Range(Attrs)

\* RayBundle.__init__: every argument that is not None becomes the attribute
RayBundle(vertices, directions, energy, parents, ref_index) ==
    [vertices |-> vertices, directions |-> directions, energy |-> energy,
     parents |-> parents, ref_index |-> ref_index]

hasattr(b, a) == Has(b[a])
\* the array of a set attribute
Array(m, b, a) == m[Val(b[a])]

BReturns(m, v) == [mem |-> m, exc |-> "", val |-> v]
BRaises(m, e) == [mem |-> m, exc |-> e, val |-> None]

\* a new array object holding the columns cols
NewArray(m, cols) == [mem |-> Append(m, cols), buf |-> Len(m) + 1]

\* the selectors: N.s_[:] (kind "slice", the default of inherit) and index
\* arrays (kind "index")
SliceAll == [kind |-> "slice", idx |-> <<>>]
IndexArray(idx) == [kind |-> "index", idx |-> idx]

\* a subscript that ignores its selector and copies the whole array
Subscript_whole(m, b, selector) ==
    LET r == NewArray(m, m[b])
    IN  [mem |-> r.mem, exc |-> "", buf |-> r.buf]

\* arr[..., selector] of buffer b: a basic slice is a view on the same
\* storage, an index array makes a new array of the selected columns
Subscript(m, b, selector) ==
    IF selector.kind = "slice" THEN [mem |-> m, exc |-> "", buf |-> b]
    ELSE IF ~InRange(selector.idx, Len(m[b]))
         THEN [mem |-> m, exc |-> "IndexError", buf |-> 0]
    ELSE LET r == NewArray(m, Take(m[b], selector.idx))
         IN  [mem |-> r.mem, exc |-> "", buf |-> r.buf]

\* RayBundle.get_num_rays
bundle_get_num_rays(m, b) ==
    IF ~hasattr(b, "vertices") THEN BRaises(m, "AttributeError")
    ELSE BReturns(m, Len(Array(m, b, "vertices")))

\* RayBundle.inherit, attribute by attribute from Attrs[k] on; given[a] is
\* the override passed for a (None when not passed), acc the arguments
\* gathered for the constructor
RECURSIVE inherit_from(_, _, _, _, _, _)
inherit_from(k, m, b, selector, given, acc) ==
    IF k > Len(Attrs)
    THEN BReturns(m, RayBundle(acc.vertices, acc.directions, acc.energy,
                               acc.parents, acc.ref_index))
    ELSE LET a == Attrs[k]
         IN  IF given[a] = None /\ hasattr(b, a)
             THEN LET r == Subscript(m, Val(b[a]), selector)
                  IN  IF r.exc /= "" THEN BRaises(m, r.exc)
                      ELSE inherit_from(k + 1, r.mem, b, selector, given,
                                        [acc EXCEPT ![a] = Some(r.buf)])
             ELSE inherit_from(k + 1, m, b, selector, given, acc)

\* RayBundle.inherit; a call that raises leaves no array behind
inherit(m, b, selector, given) ==
    LET r == inherit_from(1, m, b, selector, given, given)
    IN  IF r.exc /= "" THEN BRaises(m, r.exc) ELSE r

\* a stacking that puts the later bundles first
RECURSIVE hstack_reversed(_, _, _)
hstack_reversed(m, bs, a) ==
    IF bs = <<>> THEN <<>>
    ELSE hstack_reversed(m, Tail(bs), a) \o Array(m, Head(bs), a)

\* N.hstack of the arrays of attribute a of the bundles bs
RECURSIVE hstack(_, _, _)
hstack(m, bs, a) ==
    IF bs = <<>> THEN <<>> ELSE Array(m, Head(bs), a) \o hstack(m, Tail(bs), a)

\* the order in which __add__ and concatenate_rays treat the attributes
MergeOrder == <<"directions", "vertices", "energy", "parents", "ref_index">>

\* RayBundle.__add__, attribute by attribute from MergeOrder[k] on
RECURSIVE add_from(_, _, _, _, _)
add_from(k, m, b, added, newbund) ==
    IF k > Len(MergeOrder) THEN BReturns(m, newbund)
    ELSE LET a == MergeOrder[k]
         IN  IF hasattr(b, a) /\ hasattr(added, a)
             THEN LET r == NewArray(m, hstack(m, <<b, added>>, a))
                  IN  add_from(k + 1, r.mem, b, added,
                               [newbund EXCEPT ![a] = Some(r.buf)])
             ELSE add_from(k + 1, m, b, added, newbund)

\* RayBundle.__add__
add(m, b, added) == add_from(1, m, b, added, RayBundle(None, None, None, None, None))

\* an empty_bund whose energy has one cell: N.array([0.])
empty_bund_one_energy(m) ==
    LET m5 == m \o <<<<>>, <<>>, <<0>>, <<>>, <<>>>>
        n == Len(m)
    IN  BReturns(m5, [directions |-> Some(n + 1), vertices |-> Some(n + 2),
                      energy |-> Some(n + 3), parents |-> Some(n + 4),
                      ref_index |-> Some(n + 5)])

\* RayBundle.empty_bund
empty_bund(m) ==
    LET m5 == m \o <<<<>>, <<>>, <<>>, <<>>, <<>>>>
        n == Len(m)
    IN  BReturns(m5, [directions |-> Some(n + 1), vertices |-> Some(n + 2),
                      energy |-> Some(n + 3), parents |-> Some(n + 4),
                      ref_index |-> Some(n + 5)])

\* N.delete(N.arange(n), idx): the indices below n that are not in idx
RECURSIVE arange_without(_, _, _)
arange_without(i, n, idx) ==
    IF i >= n THEN <<>>
    ELSE (IF i \in Range(idx) THEN <<>> ELSE <<i>>) \o arange_without(i + 1, n, idx)

\* RayBundle.delete_rays
delete_rays(m, b, selector) ==
    LET n == bundle_get_num_rays(m, b)
    IN  IF n.exc /= "" THEN BRaises(m, n.exc)
        ELSE inherit(m, b, IndexArray(arange_without(0, n.val, selector.idx)),
                     [a \in AttrSet |-> None])

\* concatenate_rays for a list that is not empty, from MergeOrder[k] on
RECURSIVE concatenate_from(_, _, _, _)
concatenate_from(k, m, bs, newbund) ==
    IF k > Len(MergeOrder) THEN BReturns(m, newbund)
    ELSE LET a == MergeOrder[k]
         IN  IF hasattr(bs[1], a)
             THEN IF \E i \in DOMAIN bs : ~hasattr(bs[i], a)
                  THEN BRaises(m, "KeyError")
                  ELSE LET r == NewArray(m, hstack(m, bs, a))
                       IN  concatenate_from(k + 1, r.mem, bs,
                                            [newbund EXCEPT ![a] = Some(r.buf)])
             ELSE concatenate_from(k + 1, m, bs, newbund)

\* concatenate_rays
concatenate_rays(m, bs) ==
    IF Len(bs) = 0 THEN empty_bund(m)
    ELSE LET r == concatenate_from(1, m, bs, RayBundle(None, None, None, None, None))
         IN  IF r.exc /= "" THEN BRaises(m, r.exc) ELSE r

\* the setter set_<a>(new_val, selector).  Without a selector (kind "none")
\* the attribute becomes the array new_val, here the buffer new_val of the
\* caller; with one, the scalar new_val is written into the selected
\* columns of the attribute's array, in place.  val is the bundle afterwards
setter(m, b, a, new_val, selector) ==
    IF selector.kind = "none" THEN BReturns(m, [b EXCEPT ![a] = Some(new_val)])
    ELSE IF ~hasattr(b, a) THEN BRaises(m, "KeyError")
    ELSE LET buf == Val(b[a])
             hit == IF selector.kind = "slice" THEN DOMAIN m[buf]
                    ELSE {selector.idx[k] + 1 : k \in DOMAIN selector.idx}
         IN  IF selector.kind = "index" /\ ~InRange(selector.idx, Len(m[buf]))
             THEN BRaises(m, "IndexError")
             ELSE BReturns([m EXCEPT ![buf] =
                              [j \in DOMAIN m[buf] |->
                                 IF j \in hit THEN new_val ELSE m[buf][j]]],
                           b)

---------------------------------------------------------------------------
(* The bundles a run starts from, and the calls made on them. *)

\* largest number of bundles handed to concatenate_rays
MaxList == 2

\* column j of attribute Attrs[k] of the i-th starting bundle: every column
\* of every array is a value of its own, so that a column can be followed
\* through the operations
Column(i, k, j) == 100 * i + 10 * k + j
\* what a setter writes, and the columns of an array passed as an override
Passed(j) == 900 + j
Written == Passed(0)

\* the i-th starting bundle (the first has all five attributes, the second
\* one ray), with the attributes of present set and n
\* columns each, built from Attrs[k] on
RECURSIVE make_from(_, _, _, _, _, _)
make_from(k, m, i, present, n, acc) ==
    IF k > Len(Attrs) THEN BReturns(m, acc)
    ELSE IF Attrs[k] \in present
         THEN LET r == NewArray(m, [j \in 1..n |-> Column(i, k, j)])
              IN  make_from(k + 1, r.mem, i, present, n,
                            [acc EXCEPT ![Attrs[k]] = Some(r.buf)])
         ELSE make_from(k + 1, m, i, present, n, acc)
MakeBundle(m, i, present, n) ==
    make_from(1, m, i, present, n, RayBundle(None, None, None, None, None))

\* the attribute sets of the second starting bundle
Patterns == { AttrSet, {"vertices", "directions", "energy"}, {"directions", "energy"} }

\* the number of rays the caller takes a bundle to have: the columns of its
\* vertices, or of its first attribute when it has no vertices
Rays(m, b) ==
    IF \A a \in AttrSet : ~hasattr(b, a) THEN 0
    ELSE Len(Array(m, b, Attrs[CHOOSE k \in DOMAIN Attrs :
                                  /\ hasattr(b, Attrs[k])
                                  /\ \A l \in 1..(k - 1) : ~hasattr(b, Attrs[l])]))

\* index arrays into a bundle of n rays
IndexArrays(n) == UNION {[1..l -> 0..(n - 1)] : l \in 0..MaxSel}
\* the selectors handed to inherit: the default and the index arrays
Selectors(n) == {SliceAll} \cup {IndexArray(q) : q \in IndexArrays(n)}
\* the selectors tried together with an override or a setter: the default
\* and the arrays of one index
ShortSelectors(n) == {SliceAll} \cup {IndexArray(<<i>>) : i \in 0..(n - 1)}

NoOverride == [a \in AttrSet |-> None]
\* the overrides passed to inherit: none, or an array of c columns for one
\* of vertices and energy
Overrides == {"vertices", "energy"} \X (0..MaxN)

Op(name, a, b, list, selector, attr, cols, exc, res) ==
    [name |-> name, a |-> a, b |-> b, list |-> list, sel |-> selector,
     attr |-> attr, cols |-> cols, exc |-> exc, res |-> res]

GeometryIdle ==
    /\ self = NewManager("FlatGeometryManager", None, None)
    /\ frame = << <<1, 0, 0, 0>>, <<0, 1, 0, 0>>, <<0, 0, 1, 0>>, <<0, 0, 0, 1>> >>
    /\ bundle = [vertices |-> <<>>, directions |-> <<>>]
    /\ ret = [exc |-> "", val |-> <<>>]
    /\ last = "__init__"
    /\ phase = "idle"
    /\ dists = None
    /\ sel = None

BundleInit ==
    /\ GeometryIdle
    /\ \E n1 \in 1..MaxN, p2 \in Patterns :
          LET r1 == MakeBundle(<<>>, 1, AttrSet, n1)
              r2 == MakeBundle(r1.mem, 2, p2, 1)
          IN  /\ mem = r2.mem
              /\ bundles = <<r1.val, r2.val>>
    /\ op = Op("none", 0, 0, <<>>, SliceAll, "", 0, "", 0)
    /\ nops = 0

\* a call that returns a new bundle (or raises)
Produce(r, o) ==
    /\ nops < MaxOps
    /\ nops' = nops + 1
    /\ IF r.exc = ""
       THEN /\ mem' = r.mem
            /\ bundles' = Append(bundles, r.val)
            /\ op' = [o EXCEPT !.res = Len(bundles) + 1]
       ELSE /\ UNCHANGED <<mem, bundles>>
            /\ op' = [o EXCEPT !.exc = r.exc]
    /\ UNCHANGED gvars

Inherit ==
    \E a \in DOMAIN bundles :
        \E selector \in Selectors(Rays(mem, bundles[a])) :
            Produce(inherit(mem, bundles[a], selector, NoOverride),
                    Op("inherit", a, 0, <<>>, selector, "", 0, "", 0))

\* inherit with an array of the caller passed for one attribute
InheritOverride ==
    \E a \in DOMAIN bundles, o \in Overrides :
        \E selector \in ShortSelectors(Rays(mem, bundles[a])) :
            LET arr == NewArray(mem, [j \in 1..o[2] |-> Passed(j)])
            IN  Produce(inherit(arr.mem, bundles[a], selector,
                                [NoOverride EXCEPT ![o[1]] = Some(arr.buf)]),
                        Op("inherit", a, 0, <<>>, selector, o[1], o[2], "", 0))

Add ==
    \E a, b \in DOMAIN bundles :
        Produce(add(mem, bundles[a], bundles[b]),
                Op("add", a, b, <<>>, SliceAll, "", 0, "", 0))

DeleteRays ==
    \E a \in DOMAIN bundles :
        \E q \in IndexArrays(Rays(mem, bundles[a])) :
            Produce(delete_rays(mem, bundles[a], IndexArray(q)),
                    Op("delete_rays", a, 0, <<>>, IndexArray(q), "", 0, "", 0))

ConcatenateRays ==
    \E list \in UNION {[1..l -> DOMAIN bundles] : l \in 0..MaxList} :
        Produce(concatenate_rays(mem, [i \in DOMAIN list |-> bundles[list[i]]]),
                Op("concatenate_rays", 0, 0, list, SliceAll, "", 0, "", 0))

\* set_<attr>(value, selector) on a bundle
SetSelected ==
    /\ nops < MaxOps
    /\ \E a \in DOMAIN bundles, attr \in AttrSet :
          \E selector \in ShortSelectors(Rays(mem, bundles[a])) :
              LET r == setter(mem, bundles[a], attr, Written, selector)
              IN  /\ mem' = r.mem
                  /\ op' = Op("set", a, 0, <<>>, selector, attr, 0, r.exc, 0)
    /\ nops' = nops + 1
    /\ UNCHANGED bundles
    /\ UNCHANGED gvars

\* set_<attr>(array): the attribute becomes an array of the caller, with
\* one column per ray of the bundle
SetWhole ==
    /\ nops < MaxOps
    /\ \E a \in DOMAIN bundles, attr \in AttrSet :
          LET arr == NewArray(mem, [j \in 1..Rays(mem, bundles[a]) |-> Passed(j)])
              r == setter(arr.mem, bundles[a], attr, arr.buf, [kind |-> "none", idx |-> <<>>])
          IN  /\ mem' = r.mem
              /\ bundles' = [bundles EXCEPT ![a] = r.val]
              /\ op' = Op("set", a, 0, <<>>, [kind |-> "none", idx |-> <<>>], attr, 0, r.exc, 0)
    /\ nops' = nops + 1
    /\ UNCHANGED gvars

BundleNext ==
    \/ Inherit
    \/ InheritOverride
    \/ Add
    \/ DeleteRays
    \/ ConcatenateRays
    \/ SetSelected
    \/ SetWhole

BundleSpec == BundleInit /\ [][BundleNext]_vars

---------------------------------------------------------------------------
(* Properties of the ray bundles.  op is the call just made: on bundle a   *)
(* (and b, or the bundles of list), with selector sel, attribute attr and  *)
(* an override of cols columns; exc is what it raised and res the bundle   *)
(* it returned.                                                            *)

\* the indices a selector stands for on an array of n columns
Selected(selector, n) ==
    IF selector.kind = "slice" THEN [j \in 1..n |-> j - 1] ELSE selector.idx
AllInOrder(q, n) == q = [j \in 1..n |-> j - 1]
\* the numbers of columns of the arrays of a bundle
ColumnCounts(m, b) == {Len(Array(m, b, a)) : a \in {x \in AttrSet : hasattr(b, x)}}

\* C7: inherit(selector) without overrides, on a bundle whose arrays have
\* one common number of columns, returns a bundle with exactly the
\* attributes of its source, each with one column per index of the
\* selector, column j being the source's column selector[j]; when the
\* selector is the default or lists every index in order, each array of the
\* result equals the source's.
C7_InheritSelects ==
    (/\ op.name = "inherit"
     /\ op.attr = ""
     /\ Cardinality(ColumnCounts(mem, bundles[op.a])) = 1)
        => /\ op.exc = ""
           /\ \A a \in AttrSet :
                 /\ hasattr(bundles[op.res], a) <=> hasattr(bundles[op.a], a)
                 /\ hasattr(bundles[op.a], a) =>
                       LET src == Array(mem, bundles[op.a], a)
                           res == Array(mem, bundles[op.res], a)
                           q == Selected(op.sel, Len(src))
                       IN  /\ Len(res) = Len(q)
                           /\ \A j \in DOMAIN q : res[j] = src[q[j] + 1]
                           /\ AllInOrder(q, Len(src)) => res = src

\* two rays inherited in reverse order
C7_Witness ==
    /\ op.name = "inherit"
    /\ op.attr = ""
    /\ op.exc = ""
    /\ op.sel.kind = "index"
    /\ Len(op.sel.idx) = 2
    /\ op.sel.idx[1] > op.sel.idx[2]
    /\ Len(Array(mem, bundles[op.res], "vertices")) = 2

\* C8: inherit(selector, **overrides) with an override whose number of
\* columns differs from len(selector) does not return a bundle whose arrays
\* have different numbers of columns.
C8_NoWrongLengthResult ==
    (/\ op.name = "inherit"
     /\ op.attr /= ""
     /\ op.cols /= Len(Selected(op.sel, Rays(mem, bundles[op.a]))))
        => ~(op.exc = "" /\ Cardinality(ColumnCounts(mem, bundles[op.res])) > 1)

\* C9: a + b does not fail; an attribute is on the result exactly when it is
\* on both a and b, and is then a's columns followed by b's; the bundles
\* that existed before the call, a and b among them, and their arrays are
\* as they were.
C9_AddIsLeftThenRight ==
    [][op'.name = "add" =>
          /\ op'.exc = ""
          /\ \A x \in AttrSet :
                /\ hasattr(bundles'[op'.res], x)
                      <=> (hasattr(bundles[op'.a], x) /\ hasattr(bundles[op'.b], x))
                /\ hasattr(bundles'[op'.res], x) =>
                      Array(mem', bundles'[op'.res], x)
                         = Array(mem, bundles[op'.a], x) \o Array(mem, bundles[op'.b], x)
          /\ \A i \in DOMAIN bundles :
                /\ bundles'[i] = bundles[i]
                /\ \A x \in AttrSet :
                      hasattr(bundles[i], x) =>
                         Array(mem', bundles[i], x) = Array(mem, bundles[i], x)]_vars

\* two different bundles added, the second without parents: the result has
\* the rays of both and no parents
C9_Witness ==
    /\ op.name = "add"
    /\ op.exc = ""
    /\ op.a /= op.b
    /\ hasattr(bundles[op.a], "parents")
    /\ ~hasattr(bundles[op.b], "parents")
    /\ ~hasattr(bundles[op.res], "parents")
    /\ hasattr(bundles[op.res], "vertices")
    /\ Len(Array(mem, bundles[op.res], "vertices"))
          = Len(Array(mem, bundles[op.a], "vertices"))
            + Len(Array(mem, bundles[op.b], "vertices"))
    /\ Len(Array(mem, bundles[op.a], "vertices")) > 1

\* C10: when a bundle has just been produced by inherit, delete_rays, + or
\* concatenate_rays, a write through its setter with a selector changes no
\* array of any other bundle.
C10_ProducedBundleIsIndependent ==
    [][(/\ op.name \in {"inherit", "delete_rays", "add", "concatenate_rays"}
        /\ op.res /= 0
        /\ op'.name = "set"
        /\ op'.sel.kind /= "none"
        /\ op'.a = op.res)
          => \A i \in DOMAIN bundles \ {op.res} :
                \A x \in AttrSet :
                   hasattr(bundles[i], x) =>
                      Array(mem', bundles[i], x) = Array(mem, bundles[i], x)]_vars

\* the bundles a call was made on
Operands(o) ==
    CASE o.name \in {"inherit", "delete_rays"} -> {o.a}
      [] o.name = "add" -> {o.a, o.b}
      [] o.name = "concatenate_rays" -> Range(o.list)
      [] OTHER -> {}
\* all the arrays of a bundle have one common number of columns
EqualLength(m, b) == Cardinality(ColumnCounts(m, b)) <= 1

\* C11: inherit without overrides, delete_rays, + and concatenate_rays, on
\* bundles whose arrays each have one common number of columns, fail or
\* return a bundle whose arrays have one common number of columns; so every
\* bundle a sequence of these calls returns, from such bundles, is such a
\* bundle.
C11_EqualLengthKept ==
    (/\ op.name \in {"inherit", "delete_rays", "add", "concatenate_rays"}
     /\ op.attr = ""
     /\ \A i \in Operands(op) : EqualLength(mem, bundles[i]))
        => \/ op.exc /= "" /\ op.res = 0
           \/ op.exc = "" /\ op.res \in DOMAIN bundles
                          /\ EqualLength(mem, bundles[op.res])

\* a starting bundle without parents and a bundle returned by an earlier
\* call, with parents, concatenated: the result has the rays of both
C11_Witness ==
    /\ op.name = "concatenate_rays"
    /\ op.exc = ""
    /\ Len(op.list) = 2
    /\ op.list[1] = 2
    /\ op.list[2] = 3
    /\ EqualLength(mem, bundles[2])
    /\ EqualLength(mem, bundles[3])
    /\ ~hasattr(bundles[2], "parents")
    /\ hasattr(bundles[3], "parents")
    /\ hasattr(bundles[2], "vertices")
    /\ ColumnCounts(mem, bundles[op.res])
          = {Len(Array(mem, bundles[2], "vertices"))
             + Len(Array(mem, bundles[3], "vertices"))}
    /\ Len(Array(mem, bundles[3], "vertices")) > 0

====
